---- MODULE Spec2Model ----
(***************************************************************************)
(* Model of src/routing_engine.py: build_graph and compute_shortest_paths  *)
(* as run_routing_engine calls them, on node and edge records that have    *)
(* already been loaded.  The graph is a networkx DiGraph; its add_node,    *)
(* add_edge and single_source_dijkstra are modelled by what the library    *)
(* does (dict insertion order, attribute update, heap of                   *)
(* (distance, counter, node) triples).  Reading from and writing to S3 is  *)
(* outside the model.                                                      *)
(***************************************************************************)
EXTENDS Integers, Sequences, FiniteSets, TLC

VARIABLES nodes_df, edges_df, G, routing_table, pc

vars == <<nodes_df, edges_df, G, routing_table, pc>>

(***************************************************************************)
(* Bounds of the inputs.                                                   *)
(***************************************************************************)
MaxNodeRecs == 2
MaxEdgeRecs == 3

NodeIds == {"A", "B", "C"}
Locations == {"x", "y"}
Types == {"hub", "region"}
Weights == {-1, 0, 1, 2}

Range(s) == {s[i] : i \in DOMAIN s}

SeqsUpTo(S, n) == UNION {[1..k -> S] : k \in 0..n}

(***************************************************************************)
(* The records of nodes.csv and edges.csv.                                 *)
(***************************************************************************)
NodeRow(n, l, t) == [node_id |-> n, location |-> l, type |-> t]

EdgeRow(u, v, w) == [source |-> u, target |-> v, distance_km |-> w]

(***************************************************************************)
(* networkx.DiGraph: the nodes in insertion order, each node's attribute   *)
(* dict, and each node's successors in insertion order with the edge's     *)
(* weight attribute.                                                       *)
(***************************************************************************)
DiGraph == [nodes |-> <<>>, attrs |-> <<>>, adj |-> <<>>]

NoAttrs == <<>>

HasNode(g, n) == n \in Range(g.nodes)

\* G.add_node(n, **attr): a new node gets the attributes, a known node has
\* its attribute dict updated with them.
AddNode(g, n, attr) ==
    IF HasNode(g, n)
    THEN [g EXCEPT !.attrs[n] = attr @@ @]
    ELSE [nodes |-> Append(g.nodes, n),
          attrs |-> (n :> attr) @@ g.attrs,
          adj   |-> (n :> <<>>) @@ g.adj]

\* The position of successor v in u's adjacency, 0 when u has no edge to v.
SuccIndex(g, u, v) ==
    IF \E i \in DOMAIN g.adj[u] : g.adj[u][i].to = v
    THEN CHOOSE i \in DOMAIN g.adj[u] : g.adj[u][i].to = v
    ELSE 0

\* The mutation "source and target are swapped".
AddEdgeReversed(g, u, v, w) ==
    LET g1 == IF HasNode(g, u) THEN g ELSE AddNode(g, u, NoAttrs)
        g2 == IF HasNode(g1, v) THEN g1 ELSE AddNode(g1, v, NoAttrs)
        i  == SuccIndex(g2, v, u)
    IN  IF i = 0
        THEN [g2 EXCEPT !.adj[v] = Append(@, [to |-> u, weight |-> w])]
        ELSE [g2 EXCEPT !.adj[v][i].weight = w]

\* The mutation "every edge is also inserted reversed" (an undirected graph).
AddEdgeUndirected(g, u, v, w) ==
    LET g1 == IF HasNode(g, u) THEN g ELSE AddNode(g, u, NoAttrs)
        g2 == IF HasNode(g1, v) THEN g1 ELSE AddNode(g1, v, NoAttrs)
        i  == SuccIndex(g2, u, v)
        g3 == IF i = 0
              THEN [g2 EXCEPT !.adj[u] = Append(@, [to |-> v, weight |-> w])]
              ELSE [g2 EXCEPT !.adj[u][i].weight = w]
    IN  AddEdgeReversed(g3, u, v, w)

\* G.add_edge(u, v, weight=w): missing endpoints are added as nodes without
\* attributes (u first); a known edge keeps its place among u's successors
\* and has its weight overwritten.
AddEdge(g, u, v, w) ==
    LET g1 == IF HasNode(g, u) THEN g ELSE AddNode(g, u, NoAttrs)
        g2 == IF HasNode(g1, v) THEN g1 ELSE AddNode(g1, v, NoAttrs)
        i  == SuccIndex(g2, u, v)
    IN  IF i = 0
        THEN [g2 EXCEPT !.adj[u] = Append(@, [to |-> v, weight |-> w])]
        ELSE [g2 EXCEPT !.adj[u][i].weight = w]

\* The loops of build_graph over the rows, from the i-th on.  The graph after
\* a row always has that row's node, so the test in each loop is true: it is
\* there to have TLC evaluate the graph row by row instead of nesting the
\* evaluation of all rows.
RECURSIVE AddNodes(_, _, _)
AddNodes(g, rows, i) ==
    IF i > Len(rows) THEN g
    ELSE LET h == AddNode(g, rows[i].node_id,
                          [location |-> rows[i].location, type |-> rows[i].type])
         IN  IF HasNode(h, rows[i].node_id) THEN AddNodes(h, rows, i + 1) ELSE h

RECURSIVE AddEdges(_, _, _)
AddEdges(g, rows, i) ==
    IF i > Len(rows) THEN g
    ELSE LET h == AddEdge(g, rows[i].source, rows[i].target, rows[i].distance_km)
         IN  IF HasNode(h, rows[i].source) THEN AddEdges(h, rows, i + 1) ELSE h

\* build_graph(nodes_df, edges_df)
build_graph(nodes, edges) == AddEdges(AddNodes(DiGraph, nodes, 1), edges, 1)

(***************************************************************************)
(* networkx.single_source_dijkstra(G, source) with target=None and         *)
(* cutoff=None, i.e. _dijkstra_multisource on one source with the paths    *)
(* dict.  The state of one run: dist (final distances), seen (tentative    *)
(* distances), paths, fringe (the heap, as the set of its                  *)
(* (distance, counter, node) triples), c (the counter), err (the           *)
(* ValueError "Contradictory paths found: negative weights?").             *)
(***************************************************************************)
DijkstraStart(source) ==
    [dist   |-> <<>>,
     seen   |-> (source :> 0),
     paths  |-> (source :> <<source>>),
     fringe |-> {<<0, 0, source>>},
     c      |-> 1,
     err    |-> FALSE]

\* heappop: the least triple; the counter decides between equal distances,
\* and no two triples share a counter.
HeapPop(fringe) ==
    CHOOSE e \in fringe :
        \A o \in fringe : e[1] < o[1] \/ (e[1] = o[1] /\ e[2] <= o[2])

\* The mutation "successors in the order of G.nodes".
SuccessorsInNodeOrder(g, v) ==
    LET pos(n) == CHOOSE i \in DOMAIN g.nodes : g.nodes[i] = n
        RECURSIVE sorted(_)
        sorted(k) ==
            IF k > Len(g.nodes) THEN <<>>
            ELSE SelectSeq(g.adj[v], LAMBDA e : pos(e.to) = k) \o sorted(k + 1)
    IN  sorted(1)

\* G._adj[v].items(): the successors of v in insertion order.
Successors(g, v) == g.adj[v]

\* The mutation "a node is never final": no ValueError, and a node already
\* taken from the heap is relaxed again.
NeverFinal(st, u) == FALSE

\* u in dist
Final(st, u) == u \in DOMAIN st.dist

\* The mutation "the first tentative distance is kept".
RelaxesFirstOnly(st, u, vu_dist) == u \notin DOMAIN st.seen

\* u not in seen or vu_dist < seen[u]
Relaxes(st, u, vu_dist) ==
    u \notin DOMAIN st.seen \/ vu_dist < st.seen[u]

\* The mutation "only the last hop is recorded".
LastHop(st, v, u) == <<v, u>>

\* paths[v] + [u]
PathThrough(st, v, u) == Append(st.paths[v], u)

\* The loop over the successors of v, from the i-th on.
RECURSIVE RelaxFrom(_, _, _, _)
RelaxFrom(g, st, v, i) ==
    IF st.err \/ i > Len(Successors(g, v)) THEN st
    ELSE LET u       == Successors(g, v)[i].to
             cost    == Successors(g, v)[i].weight
             vu_dist == st.dist[v] + cost
         IN  IF Final(st, u)
             THEN IF vu_dist < st.dist[u]
                  THEN [st EXCEPT !.err = TRUE]
                  ELSE RelaxFrom(g, st, v, i + 1)
             ELSE IF Relaxes(st, u, vu_dist)
                  THEN RelaxFrom(g,
                           [st EXCEPT !.seen   = (u :> vu_dist) @@ @,
                                      !.fringe = @ \cup {<<vu_dist, st.c, u>>},
                                      !.c      = @ + 1,
                                      !.paths  = (u :> PathThrough(st, v, u)) @@ @],
                           v, i + 1)
                  ELSE RelaxFrom(g, st, v, i + 1)

\* while fringe: pop; skip a node that is final; else make it final and
\* relax its successors.
RECURSIVE DijkstraLoop(_, _)
DijkstraLoop(g, st) ==
    IF st.err \/ st.fringe = {} THEN st
    ELSE LET e   == HeapPop(st.fringe)
             st1 == [st EXCEPT !.fringe = @ \ {e}]
         IN  IF e[3] \in DOMAIN st.dist
             THEN DijkstraLoop(g, st1)
             ELSE DijkstraLoop(g,
                      RelaxFrom(g, [st1 EXCEPT !.dist = (e[3] :> e[1]) @@ @], e[3], 1))

single_source_dijkstra(g, source) == DijkstraLoop(g, DijkstraStart(source))

\* {target: {"path": paths[target], "distance_km": lengths[target]}
\*  for target in paths}
RouteEntries(r) ==
    [target \in DOMAIN r.paths |->
        [path |-> r.paths[target], distance_km |-> r.dist[target]]]

\* A run of single_source_dijkstra raises for some source of G.
Raises(g) == \E source \in Range(g.nodes) : single_source_dijkstra(g, source).err

\* compute_shortest_paths(G), when no run raises.
compute_shortest_paths(g) ==
    [source \in Range(g.nodes) |-> RouteEntries(single_source_dijkstra(g, source))]

(***************************************************************************)
(* run_routing_engine: the records are loaded, the graph is built, the     *)
(* table is computed.  A ValueError of the library ends the run without a  *)
(* table.                                                                  *)
(***************************************************************************)
NodeRows == {NodeRow(n, l, t) : n \in NodeIds, l \in Locations, t \in Types}

EdgeRows == {EdgeRow(u, v, w) : u \in NodeIds, v \in NodeIds, w \in Weights}

\* One record per node of NodeIds, in a fixed order.
AllNodes == <<NodeRow("A", "x", "hub"), NodeRow("B", "x", "hub"), NodeRow("C", "y", "region")>>

Loaded(nodes, edges) ==
    /\ nodes_df = nodes
    /\ edges_df = edges
    /\ G = DiGraph
    /\ routing_table = <<>>
    /\ pc = "loaded"

\* The inputs: any node records with at most one edge record, or one record
\* per node with any edge records.
Init ==
    \/ \E n \in 0..MaxNodeRecs, e \in 0..1 :
           \E nodes \in [1..n -> NodeRows], edges \in [1..e -> EdgeRows] :
               Loaded(nodes, edges)
    \/ \E e \in 0..MaxEdgeRecs :
           \E edges \in [1..e -> EdgeRows] : Loaded(AllNodes, edges)

BuildGraph ==
    /\ pc = "loaded"
    /\ G' = build_graph(nodes_df, edges_df)
    /\ pc' = "built"
    /\ UNCHANGED <<nodes_df, edges_df, routing_table>>

ComputeShortestPaths ==
    /\ pc = "built"
    /\ IF Raises(G)
       THEN pc' = "failed" /\ UNCHANGED routing_table
       ELSE pc' = "done" /\ routing_table' = compute_shortest_paths(G)
    /\ UNCHANGED <<nodes_df, edges_df, G>>

Next == BuildGraph \/ ComputeShortestPaths

Spec == Init /\ [][Next]_vars

(***************************************************************************)
(* The scenario of five nodes and six edges, its edge records in any       *)
(* order.                                                                  *)
(***************************************************************************)
ScenarioNodes ==
    <<NodeRow("A", "x", "hub"), NodeRow("B", "x", "hub"), NodeRow("C", "x", "hub"),
      NodeRow("D", "x", "hub"), NodeRow("E", "x", "hub")>>

ScenarioEdges ==
    <<EdgeRow("A", "B", 5), EdgeRow("B", "C", 3), EdgeRow("C", "D", 4),
      EdgeRow("D", "E", 2), EdgeRow("A", "E", 8), EdgeRow("B", "E", 6)>>

\* The records of rows in the order p.
Reordered(rows, p) == [i \in DOMAIN rows |-> rows[p[i]]]

InitScenario ==
    \E p \in Permutations(DOMAIN ScenarioEdges) :
        Loaded(ScenarioNodes, Reordered(ScenarioEdges, p))

SpecScenario == InitScenario /\ [][Next]_vars

(***************************************************************************)
(* Graphs of four nodes with routes of equal cost: one edge record per     *)
(* ordered pair, positive weights.                                         *)
(***************************************************************************)
MaxTieEdgeRecs == 4

TieNodes ==
    <<NodeRow("A", "x", "hub"), NodeRow("B", "x", "hub"),
      NodeRow("C", "x", "hub"), NodeRow("D", "x", "hub")>>

TiePairs == {<<"A", "B">>, <<"A", "C">>, <<"B", "D">>, <<"C", "D">>, <<"B", "C">>}

TieEdgeRows == {EdgeRow(e[1], e[2], w) : e \in TiePairs, w \in {1, 2}}

DistinctPairs(edges) ==
    \A i \in DOMAIN edges, j \in DOMAIN edges :
        (edges[i].source = edges[j].source /\ edges[i].target = edges[j].target) => i = j

InitTie ==
    \E k \in 0..MaxTieEdgeRecs :
        \E edges \in [1..k -> TieEdgeRows] :
            DistinctPairs(edges) /\ Loaded(TieNodes, edges)

SpecTie == InitTie /\ [][Next]_vars

(***************************************************************************)
(* What the properties speak of: the edges of the built graph, their       *)
(* weights, the simple paths, reachability along the edge records.         *)
(***************************************************************************)
Nodes(g) == Range(g.nodes)

Edges(g) == UNION {{<<u, g.adj[u][i].to>> : i \in DOMAIN g.adj[u]} : u \in Nodes(g)}

Weight(g, u, v) == g.adj[u][SuccIndex(g, u, v)].weight

NonNegative(g) == \A e \in Edges(g) : Weight(g, e[1], e[2]) >= 0

\* The simple paths of g that extend p to t.
RECURSIVE SimplePathsVia(_, _, _)
SimplePathsVia(g, p, t) ==
    IF p[Len(p)] = t THEN {p}
    ELSE UNION {SimplePathsVia(g, Append(p, v), t) :
                    v \in {e[2] : e \in {d \in Edges(g) : d[1] = p[Len(p)]}} \ Range(p)}

SimplePaths(g, s, t) == SimplePathsVia(g, <<s>>, t)

RECURSIVE PathCostFrom(_, _, _)
PathCostFrom(g, p, i) ==
    IF i >= Len(p) THEN 0
    ELSE Weight(g, p[i], p[i + 1]) + PathCostFrom(g, p, i + 1)

PathCost(g, p) == PathCostFrom(g, p, 1)

MinCost(g, s, t) ==
    LET costs == {PathCost(g, p) : p \in SimplePaths(g, s, t)}
    IN  CHOOSE c \in costs : \A d \in costs : c <= d

\* The ordered pairs the edge records name.
RecordPairs(edges) == {<<edges[i].source, edges[i].target>> : i \in DOMAIN edges}

\* The identifiers reachable from the set R along the edge records.
RECURSIVE ReachableFrom(_, _)
ReachableFrom(edges, R) ==
    LET next == R \cup {e[2] : e \in {d \in RecordPairs(edges) : d[1] \in R}}
    IN  IF next = R THEN R ELSE ReachableFrom(edges, next)

NodeRecordIds(nodes) == {nodes[i].node_id : i \in DOMAIN nodes}

Built == pc \in {"built", "done", "failed"}

(***************************************************************************)
(* C1.  On a graph without negative weights, the distance the table        *)
(* records for a reachable pair (s, t) is the least cost of a simple path  *)
(* from s to t in the built graph.                                         *)
(***************************************************************************)
CostIsMinimum ==
    (pc = "done" /\ NonNegative(G)) =>
        \A s \in Nodes(G), t \in Nodes(G) :
            SimplePaths(G, s, t) # {} =>
                /\ t \in DOMAIN routing_table[s]
                /\ routing_table[s][t].distance_km = MinCost(G, s, t)

\* A table whose route from s to t takes two hops although the edge s -> t
\* exists and costs more.
CostIsMinimumWitness ==
    /\ pc = "done"
    /\ NonNegative(G)
    /\ \E s \in Nodes(G), t \in Nodes(G) :
           /\ <<s, t>> \in Edges(G)
           /\ Len(routing_table[s][t].path) = 3
           /\ routing_table[s][t].distance_km < Weight(G, s, t)

(***************************************************************************)
(* C2.  Every entry (s, t) of the table has a path that starts with s,     *)
(* ends with t and follows edges of the built graph, and its distance is   *)
(* the sum of the weights of those edges.                                  *)
(***************************************************************************)
PathMatchesCost ==
    pc = "done" =>
        \A s \in DOMAIN routing_table :
            \A t \in DOMAIN routing_table[s] :
                LET p == routing_table[s][t].path
                IN  /\ Len(p) >= 1
                    /\ p[1] = s
                    /\ p[Len(p)] = t
                    /\ \A i \in 1..(Len(p) - 1) : <<p[i], p[i + 1]>> \in Edges(G)
                    /\ routing_table[s][t].distance_km = PathCost(G, p)

PathMatchesCostWitness ==
    /\ pc = "done"
    /\ \E s \in DOMAIN routing_table :
           \E t \in DOMAIN routing_table[s] :
               /\ Len(routing_table[s][t].path) = 3
               /\ routing_table[s][t].distance_km = 3

(***************************************************************************)
(* C3.  The inner mapping of a source s holds exactly the targets that are *)
(* reachable from s along the directed edge records.                       *)
(***************************************************************************)
TargetsAreReachable ==
    pc = "done" =>
        /\ DOMAIN routing_table = Nodes(G)
        /\ \A s \in DOMAIN routing_table :
               DOMAIN routing_table[s] = ReachableFrom(edges_df, {s})

\* The only edge is A -> B, and the mapping of B has no entry for A.
TargetsAreReachableWitness ==
    /\ pc = "done"
    /\ RecordPairs(edges_df) = {<<"A", "B">>}
    /\ "B" \in DOMAIN routing_table["A"]
    /\ "A" \notin DOMAIN routing_table["B"]

(***************************************************************************)
(* C4.  The built graph gives an ordered pair the least weight among the   *)
(* edge records of that pair.                                              *)
(***************************************************************************)
ParallelEdgesUseMinimum ==
    Built =>
        \A i \in DOMAIN edges_df :
            Weight(G, edges_df[i].source, edges_df[i].target) <= edges_df[i].distance_km

(***************************************************************************)
(* C5.  No graph is built from edge records with a negative weight.        *)
(***************************************************************************)
NegativeWeightRejected ==
    Built => \A i \in DOMAIN edges_df : edges_df[i].distance_km >= 0

(***************************************************************************)
(* C6.  No graph is built from an edge record that names an identifier     *)
(* absent from the node records; the nodes of a built graph are            *)
(* identifiers of node records.                                            *)
(***************************************************************************)
DanglingEdgeRejected ==
    Built =>
        /\ \A e \in RecordPairs(edges_df) :
               e[1] \in NodeRecordIds(nodes_df) /\ e[2] \in NodeRecordIds(nodes_df)
        /\ Nodes(G) \subseteq NodeRecordIds(nodes_df)

(***************************************************************************)
(* C8.  No graph is built from two node records that share an identifier   *)
(* and differ in location or type.                                         *)
(***************************************************************************)
ConflictingDuplicateRejected ==
    Built =>
        \A i \in DOMAIN nodes_df, j \in DOMAIN nodes_df :
            nodes_df[i].node_id = nodes_df[j].node_id => nodes_df[i] = nodes_df[j]

(***************************************************************************)
(* C9.  Every node s of the graph has the entry (s, s) with path <<s>> and *)
(* distance 0; a graph of one node and no edge yields a table of that one  *)
(* entry.                                                                  *)
(***************************************************************************)
SelfEntry ==
    pc = "done" =>
        /\ \A s \in Nodes(G) :
               /\ s \in DOMAIN routing_table
               /\ s \in DOMAIN routing_table[s]
               /\ routing_table[s][s] = [path |-> <<s>>, distance_km |-> 0]
        /\ (Len(G.nodes) = 1 /\ edges_df = <<>>) =>
               /\ DOMAIN routing_table = Nodes(G)
               /\ \A s \in Nodes(G) : DOMAIN routing_table[s] = {s}

\* A table of a graph with a self-loop of non-zero weight at one node and
\* with another node that has no edge at all.
SelfEntryWitness ==
    /\ pc = "done"
    /\ \E s \in Nodes(G) :
           /\ <<s, s>> \in Edges(G)
           /\ Weight(G, s, s) # 0
           /\ routing_table[s][s].distance_km = 0
    /\ \E n \in Nodes(G) :
           /\ \A e \in Edges(G) : e[1] # n /\ e[2] # n
           /\ DOMAIN routing_table[n] = {n}

====
